---- MODULE Spec2Model ----
(***************************************************************************)
(* Model of RotatingClientSession (src/aiohttp_ip_rotator/rotator.py):     *)
(* the per-region provisioning tasks (_create_api), the orchestrator       *)
(* (start), the scoped acquisition (__aenter__), and the teardown          *)
(* (close, _clear_apis, _clear_region_apis), run against a control plane   *)
(* whose every call may succeed, rate-limit, fail or be unreachable.       *)
(* Every await of the source is a step of its own: the tasks interleave    *)
(* only at awaits, as asyncio schedules them.                              *)
(***************************************************************************)
EXTENDS Integers, Sequences, FiniteSets, TLC

VARIABLES
    wait_all_regions,  \* self.wait_all_regions
    clear_all,         \* self.clear_all
    endpoints,         \* self.endpoints
    active,            \* self.active
    apis,              \* the control plane: per region, the listed REST APIs
    nextId,            \* the control plane: per region, the next fresh id
    plane,             \* the control plane: the answers it gives to each call
    rl,                \* rate-limit responses the control plane may still give
    run,               \* number of start() invocations so far
    how,               \* how the caller began the current run
    force,             \* the force argument of the current start()
    cPc,               \* per region: position of the _create_api task
    cApi,              \* per region: api_id local of _create_api
    cRes,              \* per region: value returned by the _create_api task
    cStat,             \* per region: what the _create_api task has done
    prevRes,           \* per region: value returned in the previous run
    prevForce,         \* the force argument of the previous start()
    completed,         \* as_completed: finished tasks not yet awaited by start
    consumed,          \* number of tasks start() has awaited
    startPc,           \* position of start()
    aenterPc,          \* position of the caller's acquisition
    observed,          \* len(self.endpoints) the caller saw on acquisition
    closePc,           \* position of close()
    closedLen,         \* len(self.endpoints) when close() last ended
    tPc,               \* per region: position of the _clear_region_apis task
    tList,             \* per region: the listing being iterated
    tIdx,              \* per region: items of tList already visited
    delIssued,         \* per region: the APIs a delete_rest_api call was issued for
    tStat,             \* per region: what the _clear_region_apis task has done
    req,               \* the arguments of the last request() call
    out                \* what the last request() call did

vars == <<wait_all_regions, clear_all, endpoints, active, apis, nextId, plane,
          rl, run, how, force, cPc, cApi, cRes, cStat, prevRes, prevForce,
          completed, consumed, startPc, aenterPc, observed, closePc, closedLen,
          tPc, tList, tIdx, delIssued, tStat, req, out>>

poolVars == <<endpoints, active>>
\* the constructor's arguments and the control plane, which never change,
\* and the record of the last request(), which only request() changes
cfgVars == <<wait_all_regions, clear_all, plane, req, out>>
provVars == <<run, how, force, cPc, cApi, cRes, cStat, prevRes, prevForce,
              completed, consumed, startPc>>
callerVars == <<aenterPc, observed>>
tearVars == <<closePc, closedLen, tPc, tList, tIdx, delIssued, tStat>>

----------------------------------------------------------------------------
(* Bounds.  The catalog of the source holds 20 regions; the model runs    *)
(* NumRegions of them.                                                     *)

NumRegions == 2
MaxRuns == 2
MaxRateLimits == 1
MaxLeftover == 2

Regions == 1..NumRegions

----------------------------------------------------------------------------
(* Names.  A name is a sequence of characters; the pool's name is the      *)
(* one-character string, so that a longer name can begin with it.          *)

PoolName == <<"p">>
PrefixedName == <<"p", "x">>
ForeignName == <<"f">>

Api(id, hasName, name) == [id |-> id, hasName |-> hasName, name |-> name]

\* What a region may hold before the pool is constructed: nothing, an API of
\* another owner, an API whose name begins with the pool's name, an API
\* without a name.
InitialApis ==
    { <<>>,
      <<Api(1, TRUE, ForeignName)>>,
      <<Api(1, TRUE, PrefixedName)>>,
      <<Api(1, FALSE, <<>>)>> }

\* The listings of up to MaxLeftover APIs, of any names, ids 1, 2, ...; the
\* regions together hold up to MaxLeftover APIs.
ApiKinds ==
    { [hasName |-> TRUE, name |-> PoolName],
      [hasName |-> TRUE, name |-> PrefixedName],
      [hasName |-> TRUE, name |-> ForeignName],
      [hasName |-> FALSE, name |-> <<>>] }

LeftoverApis ==
    UNION { { [i \in 1..n |-> Api(i, k[i].hasName, k[i].name)] :
                k \in [1..n -> ApiKinds] } : n \in 0..MaxLeftover }

Range(seq) == {seq[i] : i \in 1..Len(seq)}

RECURSIVE TotalLen(_, _)
TotalLen(f, n) == IF n = 0 THEN 0 ELSE Len(f[n]) + TotalLen(f, n - 1)

LeftoverRegions ==
    {f \in [Regions -> LeftoverApis] : TotalLen(f, NumRegions) <= MaxLeftover}

None == <<>>

\* f"{api_id}.execute-api.{region}.amazonaws.com"
Endpoint(id, r) == <<id, r>>

\* str.startswith
StartsWith(s, p) == Len(s) >= Len(p) /\ SubSeq(s, 1, Len(p)) = p

\* api.get("name", "")
GetName(api) == IF api.hasName THEN api.name ELSE <<>>

Outcomes == {"ok", "rate", "error", "unreach"}

\* The calls the pool makes: get_rest_apis, create_rest_api, the calls that
\* follow create_rest_api in _create_api, delete_rest_api.
Calls == {"list", "create", "configure", "delete"}

\* A control plane that may give any answer to any call; one that never
\* fails; and the mocks of the rate-limit tests: only creation, only
\* listing, only deletion is rate-limited, nothing else fails.
AnyAnswer == [c \in Calls |-> Outcomes]
NoFailure == [c \in Calls |-> {"ok"}]
CreateThrottled == [NoFailure EXCEPT !["create"] = {"ok", "rate"}]
ListThrottled == [NoFailure EXCEPT !["list"] = {"ok", "rate"}]
DeleteThrottled == [NoFailure EXCEPT !["delete"] = {"ok", "rate"}]
\* one whose calls succeed or fail with an error other than a rate limit
ErrorsOnly == [c \in Calls |-> {"ok", "error"}]

\* The call c may be answered o: a rate-limit answer needs budget.
MayAnswer(c, o) == o \in plane[c] /\ (o = "rate" => rl > 0)

Spend(o) == IF o = "rate" THEN rl - 1 ELSE rl

----------------------------------------------------------------------------
(* _get_apis: one page holds up to 500 items, so the listing of a region   *)
(* of this model is one call; any ClientError or EndpointConnectionError   *)
(* makes it return the empty list.                                         *)

GetApis(r, o) == IF o = "ok" THEN apis[r] ELSE <<>>

\* the match of _create_api's discovery loop
IsExisting(api) == StartsWith(GetName(api), PoolName)

\* index of the first listed api the discovery loop returns, 0 when none
RECURSIVE FirstExisting(_, _)
FirstExisting(list, i) ==
    IF i > Len(list) THEN 0
    ELSE IF IsExisting(list[i]) THEN i
    ELSE FirstExisting(list, i + 1)

----------------------------------------------------------------------------
\* A _create_api task: create_rest_api calls made, rate-limit answers to
\* them, sleeps taken after them, APIs created.
NoCreateStat == [attempts |-> 0, throttled |-> 0, delays |-> 0, created |-> 0]

\* A _clear_region_apis task: rate-limit answers to delete_rest_api, sleeps
\* taken after them, ids whose delete_rest_api call succeeded, in order.
NoClearStat == [throttled |-> 0, delays |-> 0, deleted |-> <<>>]

\* request() not called yet
NoRequest == [url |-> <<>>, headers |-> [kind |-> "absent", dict |-> <<>>],
              pool |-> <<>>]
NotCalled == [kind |-> "none", calls |-> 0, url |-> <<>>, headers |-> <<>>,
              endpoint |-> None]

\* RotatingClientSession.__init__, and no task created yet
Constructed ==
    /\ endpoints = <<>>
    /\ active = FALSE
    /\ nextId = [r \in Regions |-> Len(apis[r]) + 1]
    /\ rl = MaxRateLimits
    /\ run = 0
    /\ how = "none"
    /\ force = FALSE
    /\ cPc = [r \in Regions |-> "idle"]
    /\ cApi = [r \in Regions |-> 0]
    /\ cRes = [r \in Regions |-> None]
    /\ cStat = [r \in Regions |-> NoCreateStat]
    /\ prevRes = [r \in Regions |-> None]
    /\ prevForce = FALSE
    /\ completed = <<>>
    /\ consumed = 0
    /\ startPc = "idle"
    /\ aenterPc = "idle"
    /\ observed = 0
    /\ closePc = "idle"
    /\ closedLen = 0
    /\ tPc = [r \in Regions |-> "idle"]
    /\ tList = [r \in Regions |-> <<>>]
    /\ tIdx = [r \in Regions |-> 0]
    /\ delIssued = [r \in Regions |-> {}]
    /\ tStat = [r \in Regions |-> NoClearStat]
    /\ req = NoRequest
    /\ out = NotCalled

\* Every region starts with the same listing.
Init ==
    /\ wait_all_regions \in BOOLEAN
    /\ clear_all \in BOOLEAN
    /\ plane = AnyAnswer
    /\ \E l \in InitialApis : apis = [r \in Regions |-> l]
    /\ Constructed

\* Provisioning never reads clear_all.
InitProvision ==
    /\ wait_all_regions \in BOOLEAN
    /\ clear_all = FALSE
    /\ plane = AnyAnswer
    /\ \E l \in InitialApis : apis = [r \in Regions |-> l]
    /\ Constructed

\* Teardown never reads wait_all_regions; the regions may hold what earlier
\* pools of the same target left behind.
InitTeardown ==
    /\ wait_all_regions = TRUE
    /\ clear_all \in BOOLEAN
    /\ plane = AnyAnswer
    /\ apis \in LeftoverRegions
    /\ Constructed

----------------------------------------------------------------------------
(* The caller begins a provisioning run.                                   *)

\* the exceptions a _create_api task may end by
TaskErrors == {"TooManyRequestsException", "ClientError",
               "EndpointConnectionError"}

\* the exception a control-plane call raises on the answer o
ErrorOf(o) ==
    CASE o = "rate" -> "TooManyRequestsException"
      [] o = "error" -> "ClientError"
      [] o = "unreach" -> "EndpointConnectionError"

Finished(pc) == pc \in {"idle", "done"} \cup TaskErrors

\* The first run begins on the pool as constructed.
CanBegin == run = 0

\* A later run begins when the caller is not blocked and the tasks of the
\* previous run have all ended.
CanBeginAgain ==
    /\ run > 0
    /\ run < MaxRuns
    /\ aenterPc \in {"returned", "raised"}
    /\ startPc # "running"
    /\ \A r \in Regions : Finished(cPc[r])

\* start(force): one _create_api task per region, all created before the
\* first await; with force the task skips the listing.
BeginStart(f, h) ==
    /\ run' = run + 1
    /\ how' = h
    /\ force' = f
    /\ prevForce' = force
    /\ prevRes' = cRes
    /\ cPc' = [r \in Regions |-> IF f THEN "create" ELSE "list"]
    /\ cApi' = [r \in Regions |-> 0]
    /\ cRes' = [r \in Regions |-> None]
    /\ cStat' = [r \in Regions |-> NoCreateStat]
    /\ completed' = <<>>
    /\ consumed' = 0
    /\ startPc' = "running"
    /\ aenterPc' = "waiting"

\* __aenter__: task = asyncio.create_task(self.start())
Aenter ==
    /\ CanBegin
    /\ BeginStart(FALSE, "aenter")
    /\ UNCHANGED <<cfgVars, poolVars, apis, nextId, rl, observed, tearVars>>

\* the caller's own  await session.start(force)
CallStart ==
    /\ CanBegin
    /\ \E f \in BOOLEAN : BeginStart(f, "start")
    /\ UNCHANGED <<cfgVars, poolVars, apis, nextId, rl, observed, tearVars>>

\* start(force) called again on the same pool, nothing torn down in between
StartAgain ==
    /\ CanBeginAgain
    /\ \E f \in BOOLEAN : BeginStart(f, "start")
    /\ UNCHANGED <<cfgVars, poolVars, apis, nextId, rl, observed, tearVars>>

----------------------------------------------------------------------------
(* _create_api, one step per control-plane call.                           *)

\* The task of region r ends: as_completed hands it to start() if start()
\* is still iterating.
Complete(r) ==
    completed' = IF startPc = "running" THEN Append(completed, r) ELSE completed

\* where _create_api(region, force) begins
EntryPc == IF force THEN "create" ELSE "list"

\* current_apis = await self._get_apis(region, client), then the loop
CreateApi_List(r) ==
    /\ cPc[r] = "list"
    /\ \E o \in Outcomes :
         /\ MayAnswer("list", o)
         /\ rl' = Spend(o)
         /\ LET current_apis == GetApis(r, o)
                i == FirstExisting(current_apis, 1)
            IN IF i > 0
               THEN /\ cRes' = [cRes EXCEPT ![r] = Endpoint(current_apis[i].id, r)]
                    /\ cPc' = [cPc EXCEPT ![r] = "done"]
                    /\ Complete(r)
               ELSE /\ cPc' = [cPc EXCEPT ![r] = "create"]
                    /\ UNCHANGED <<cRes, completed>>
    /\ UNCHANGED <<cfgVars, poolVars, apis, nextId, run, how, force, cApi,
                   cStat, prevRes, prevForce, consumed, startPc, callerVars,
                   tearVars>>

\* What the except clause of _create_api does after a rate-limit answer
\* to create_rest_api, none when it takes it for any other ClientError.
Retry_None(st) == st

\* What the except clause of _create_api does after a rate-limit answer
\* to create_rest_api: one asyncio.sleep(3), then the recursive call.
Retry(st) == [st EXCEPT !.delays = @ + 1]

\* the record of one create_rest_api call answered o
Attempted(st, o) ==
    LET called == [st EXCEPT !.attempts = @ + 1]
    IN CASE o = "ok" -> [called EXCEPT !.created = @ + 1]
         [] o = "rate" -> Retry([called EXCEPT !.throttled = @ + 1])
         [] OTHER -> called

\* api_id = (await client.create_rest_api(name=self.name, ...))["id"]
CreateApi_Create(r) ==
    /\ cPc[r] = "create"
    /\ \E o \in Outcomes :
         /\ MayAnswer("create", o)
         /\ rl' = Spend(o)
         /\ cStat' = [cStat EXCEPT ![r] = Attempted(@, o)]
         /\ CASE o = "ok" ->
                   /\ apis' = [apis EXCEPT ![r] =
                                 Append(@, Api(nextId[r], TRUE, PoolName))]
                   /\ nextId' = [nextId EXCEPT ![r] = @ + 1]
                   /\ cApi' = [cApi EXCEPT ![r] = nextId[r]]
                   /\ cPc' = [cPc EXCEPT ![r] = "configure"]
                   /\ UNCHANGED <<cRes, completed>>
              [] o = "rate" ->
                   \* sleep(3), then return await self._create_api(region, force)
                   /\ cPc' = [cPc EXCEPT ![r] = EntryPc]
                   /\ UNCHANGED <<apis, nextId, cApi, cRes, completed>>
              [] o \in {"error", "unreach"} ->
                   /\ cRes' = [cRes EXCEPT ![r] = None]
                   /\ cPc' = [cPc EXCEPT ![r] = "done"]
                   /\ Complete(r)
                   /\ UNCHANGED <<apis, nextId, cApi>>
    /\ UNCHANGED <<cfgVars, poolVars, run, how, force, prevRes, prevForce,
                   consumed, startPc, callerVars, tearVars>>

\* The calls after the try block, in order: get_resources, create_resource,
\* and the five calls of _configure_api.  None of them changes what the
\* model records of the control plane, so the task takes them in one step:
\* k = 0 when all succeed, otherwise call k is the first to fail.
ConfigCalls == <<"get_resources", "create_resource", "put_method",
                 "put_integration", "put_method_proxy",
                 "put_integration_proxy", "create_deployment">>

\* What an exception of a call after the try block does to the task: no
\* handler encloses these calls, so the task ends by the exception.
AfterTryFailure(r, o) ==
    /\ cPc' = [cPc EXCEPT ![r] = ErrorOf(o)]
    /\ UNCHANGED cRes

CreateApi_Configure(r) ==
    /\ cPc[r] = "configure"
    /\ \E k \in 0..Len(ConfigCalls), o \in Outcomes :
         /\ MayAnswer("configure", o)
         /\ (k = 0) = (o = "ok")
         /\ rl' = Spend(o)
         /\ IF k = 0
            THEN /\ cRes' = [cRes EXCEPT ![r] = Endpoint(cApi[r], r)]
                 /\ cPc' = [cPc EXCEPT ![r] = "done"]
            ELSE AfterTryFailure(r, o)
         /\ Complete(r)
    /\ UNCHANGED <<cfgVars, poolVars, apis, nextId, run, how, force, cApi,
                   cStat, prevRes, prevForce, consumed, startPc, callerVars,
                   tearVars>>

----------------------------------------------------------------------------
(* start(): the loop over asyncio.as_completed.                            *)

\* start() appending without the flip of self.active
Merge_NoFlip(endpoint) ==
    IF endpoint # None
    THEN /\ endpoints' = Append(endpoints, endpoint)
         /\ UNCHANGED active
    ELSE UNCHANGED <<endpoints, active>>

\* start() without the test  endpoint is not None
Merge_Unchecked(endpoint) ==
    /\ endpoints' = Append(endpoints, endpoint)
    /\ active' = TRUE

\* what start() does with the value of an awaited task
Merge(endpoint) ==
    IF endpoint # None
    THEN /\ endpoints' = Append(endpoints, endpoint)
         /\ active' = TRUE
    ELSE UNCHANGED <<endpoints, active>>

\* endpoint = await task, and the body of the loop; the await of a task
\* that ended by an exception raises it out of start().
Start_Consume ==
    /\ startPc = "running"
    /\ completed # <<>>
    /\ LET r == Head(completed)
       IN /\ completed' = Tail(completed)
          /\ IF cPc[r] \in TaskErrors
             THEN /\ startPc' = "raised"
                  /\ UNCHANGED <<endpoints, active, consumed>>
             ELSE /\ Merge(cRes[r])
                  /\ consumed' = consumed + 1
                  /\ startPc' = IF consumed + 1 = NumRegions
                                THEN "done" ELSE "running"
    /\ UNCHANGED <<cfgVars, apis, nextId, rl, run, how, force, cPc, cApi, cRes,
                   cStat, prevRes, prevForce, callerVars, tearVars>>

----------------------------------------------------------------------------
(* __aenter__ after create_task, and the caller's await of start().        *)

\* __aenter__ returning right after create_task
AenterMayReturn_NoWait == TRUE

\* __aenter__ polling self.active whatever wait_all_regions is
AenterMayReturn_First == active

\* __aenter__ leaving its loop also when start() has ended
AenterMayReturn_OrEnded ==
    IF how = "aenter" /\ ~wait_all_regions
    THEN active \/ startPc # "running"
    ELSE startPc = "done"

\* wait_all_regions: await task; otherwise: while not self.active: sleep(0).
\* The caller's own await of start() ends when start() does.
AenterMayReturn ==
    IF how = "aenter" /\ ~wait_all_regions
    THEN active
    ELSE startPc = "done"

Aenter_Return ==
    /\ aenterPc = "waiting"
    /\ AenterMayReturn
    /\ aenterPc' = "returned"
    /\ observed' = Len(endpoints)
    /\ UNCHANGED <<cfgVars, poolVars, apis, nextId, rl, provVars, tearVars>>

\* await task re-raises the exception start() ended by
Aenter_Raise ==
    /\ aenterPc = "waiting"
    /\ how = "start" \/ wait_all_regions
    /\ startPc = "raised"
    /\ aenterPc' = "raised"
    /\ UNCHANGED <<cfgVars, poolVars, apis, nextId, rl, provVars, observed,
                   tearVars>>

----------------------------------------------------------------------------
(* close(), _clear_apis and the _clear_region_apis tasks.                  *)

TeardownErrors == {"KeyError", "EndpointConnectionError"}

TeardownEnded(pc) == pc \in {"idle", "done"} \cup TeardownErrors

\* _clear_apis creates one _clear_region_apis task per region
ClearApis ==
    /\ closePc = "idle"
    /\ closePc' = "running"
    /\ tPc' = [r \in Regions |-> "list"]
    /\ tList' = [r \in Regions |-> <<>>]
    /\ tIdx' = [r \in Regions |-> 0]
    /\ delIssued' = [r \in Regions |-> {}]
    /\ tStat' = [r \in Regions |-> NoClearStat]
    /\ UNCHANGED <<cfgVars, poolVars, apis, nextId, rl, provVars, callerVars,
                   closedLen>>

\* close() through __aexit__, or called by the caller once its await of
\* the acquisition has ended
Close_Begin ==
    /\ aenterPc \in {"returned", "raised"}
    /\ ClearApis

\* close() on a pool that was never started
Close_Unstarted ==
    /\ run = 0
    /\ ClearApis

\* for api in await self._get_apis(region, client)
Clear_List(r) ==
    /\ tPc[r] = "list"
    /\ \E o \in Outcomes :
         /\ MayAnswer("list", o)
         /\ rl' = Spend(o)
         /\ tList' = [tList EXCEPT ![r] = GetApis(r, o)]
         /\ tIdx' = [tIdx EXCEPT ![r] = 0]
         /\ tPc' = [tPc EXCEPT ![r] = IF GetApis(r, o) = <<>> THEN "done"
                                      ELSE "loop"]
    /\ UNCHANGED <<cfgVars, poolVars, apis, nextId, provVars, callerVars,
                   closePc, closedLen, delIssued, tStat>>

\* the teardown matching names the way the discovery does
ShouldDelete_Prefix(api) == clear_all \/ StartsWith(GetName(api), PoolName)

\* if force or api["name"] == self.name   (force is self.clear_all)
ShouldDelete(api) == clear_all \/ api.name = PoolName

\* api["name"] is evaluated only when force is false
NameLookupFails(api) == ~clear_all /\ ~api.hasName

\* the control plane's state after delete_rest_api(restApiId=id) succeeds
Deleted(list, id) == SelectSeq(list, LAMBDA a : a.id # id)

\* the next iteration of the loop, or its end
Advance(r) ==
    /\ tIdx' = [tIdx EXCEPT ![r] = @ + 1]
    /\ tPc' = [tPc EXCEPT ![r] = IF tIdx[r] + 1 = Len(tList[r]) THEN "done"
                                 ELSE "loop"]
    /\ UNCHANGED tList

\* What an unreachable control plane does to the loop: the except clause
\* names ClientError only, so EndpointConnectionError ends the task.
DeleteUnreachable(r) ==
    /\ tPc' = [tPc EXCEPT ![r] = "EndpointConnectionError"]
    /\ UNCHANGED <<tList, tIdx>>

\* The loop treating a rate-limit answer as it treats the other
\* ClientErrors: on to the next API.
Clear_Retry_Skip(r) == Advance(r)

\* after TooManyRequestsException: asyncio.sleep(3), then
\* return await self._clear_region_apis(region, force), which lists again
Clear_Retry(r) ==
    /\ tPc' = [tPc EXCEPT ![r] = "list"]
    /\ UNCHANGED <<tList, tIdx>>

\* the record of one delete_rest_api(restApiId=id) call answered o
DeleteCalled(st, id, o) ==
    CASE o = "ok" -> [st EXCEPT !.deleted = Append(@, id)]
      [] o = "rate" -> [st EXCEPT !.throttled = @ + 1, !.delays = @ + 1]
      [] OTHER -> st

\* one iteration of the loop of _clear_region_apis
Clear_Visit(r) ==
    /\ tPc[r] = "loop"
    /\ LET api == tList[r][tIdx[r] + 1]
       IN IF NameLookupFails(api)
          THEN /\ tPc' = [tPc EXCEPT ![r] = "KeyError"]
               /\ UNCHANGED <<tList, tIdx, apis, rl, delIssued, tStat>>
          ELSE IF ShouldDelete(api)
          THEN \E o \in Outcomes :
                 /\ MayAnswer("delete", o)
                 /\ rl' = Spend(o)
                 /\ delIssued' = [delIssued EXCEPT ![r] = @ \cup {api}]
                 /\ tStat' = [tStat EXCEPT ![r] = DeleteCalled(@, api.id, o)]
                 /\ apis' = IF o = "ok"
                            THEN [apis EXCEPT ![r] = Deleted(@, api.id)]
                            ELSE apis
                 /\ CASE o \in {"ok", "error"} -> Advance(r)
                      [] o = "rate" -> Clear_Retry(r)
                      [] o = "unreach" -> DeleteUnreachable(r)
          ELSE /\ Advance(r)
               /\ UNCHANGED <<apis, rl, delIssued, tStat>>
    /\ UNCHANGED <<cfgVars, poolVars, nextId, provVars, callerVars, closePc,
                   closedLen>>

\* what close() does to the pool after _clear_apis and super().close()
Deactivate ==
    /\ active' = FALSE
    /\ UNCHANGED endpoints

\* asyncio.gather has every result: super().close(), self.active = False
Close_Finish ==
    /\ closePc = "running"
    /\ \A r \in Regions : tPc[r] = "done"
    /\ closePc' = "done"
    /\ Deactivate
    /\ closedLen' = Len(endpoints)
    /\ UNCHANGED <<cfgVars, apis, nextId, rl, provVars, callerVars, tPc,
                   tList, tIdx, delIssued, tStat>>

\* asyncio.gather re-raises the first exception of a task; the other tasks
\* keep running, the rest of close() is skipped.
Close_Raise ==
    /\ closePc = "running"
    /\ \E r \in Regions : tPc[r] \in TeardownErrors
    /\ closePc' = "raised"
    /\ UNCHANGED <<cfgVars, poolVars, apis, nextId, rl, provVars, callerVars,
                   closedLen, tPc, tList, tIdx, delIssued, tStat>>

----------------------------------------------------------------------------
\* request(method, url, **kwargs).  Text is a sequence of characters; the
\* address of an endpoint is written with its id, its region and the two
\* fixed parts of the host name.

HttpPrefix == <<"h", "t", "t", "p", ":", "/", "/">>
HttpsPrefix == <<"h", "t", "t", "p", "s", ":", "/", "/">>
SchemeSep == <<":", "/", "/">>
Slash == <<"/">>
ProxyStage == <<"/", "p", "r", "o", "x", "y", "-", "s", "t", "a", "g", "e", "/">>

\* f"{api_id}.execute-api.{region}.amazonaws.com"
EndpointText(e) ==
    <<ToString(e[1]), ".execute-api.", ToString(e[2]), ".amazonaws.com">>

\* self.host_header
HostHeader == "o"

\* str.find: where pat first occurs in s, 0 when it does not
IndexOf(s, pat) ==
    LET at == {i \in 1..(Len(s) - Len(pat) + 1) :
                  SubSeq(s, i, i + Len(pat) - 1) = pat}
    IN IF at = {} THEN 0 ELSE CHOOSE i \in at : \A j \in at : i <= j

\* s.split(pat, 1)
SplitOnce(s, pat) ==
    LET i == IndexOf(s, pat)
    IN IF i = 0 THEN <<s>>
       ELSE <<SubSeq(s, 1, i - 1), SubSeq(s, i + Len(pat), Len(s))>>

\* try: path = url.split("://", 1)[1].split("/", 1)[1]
\* except IndexError: path = ""
PathOf(url) ==
    LET a == SplitOnce(url, SchemeSep)
    IN IF Len(a) < 2 THEN <<>>
       ELSE LET b == SplitOnce(a[2], Slash)
            IN IF Len(b) < 2 THEN <<>> ELSE b[2]

\* The rewritten URL were it to keep the scheme of the caller's URL.
RewriteUrl_KeepScheme(endpoint, url) ==
    SplitOnce(url, SchemeSep)[1] \o SchemeSep \o EndpointText(endpoint)
        \o ProxyStage \o PathOf(url)

\* url = f"https://{endpoint}/proxy-stage/{path}"
RewriteUrl(endpoint, url) ==
    HttpsPrefix \o EndpointText(endpoint) \o ProxyStage \o PathOf(url)

\* dict.pop(k, None), dict.get(k) with "" for None, dict[k] = v
Pop(h, k) == [n \in DOMAIN h \ {k} |-> h[n]]
Get(h, k) == IF k \in DOMAIN h THEN h[k] ELSE ""
Set(h, k, v) == [n \in DOMAIN h \cup {k} |-> IF n = k THEN v ELSE h[n]]

\* inet_ntoa(pack(">I", n)), n given by its four bytes, high byte first
InetNtoa(b) ==
    ToString(b[1]) \o "." \o ToString(b[2]) \o "." \o ToString(b[3])
        \o "." \o ToString(b[4])

\* randint(1, 0xffffffff): the least, the greatest and one value between
RandomDraws == {<<0, 0, 0, 1>>, <<1, 2, 3, 4>>, <<255, 255, 255, 255>>}

\* The URLs handed to request(): https://o/a?b  http://o  https://o/
\* http://o/a://b  ftp://o/a
Urls ==
    { HttpsPrefix \o <<"o", "/", "a", "?", "b">>,
      HttpPrefix \o <<"o">>,
      HttpsPrefix \o <<"o", "/">>,
      HttpPrefix \o <<"o", "/", "a", ":", "/", "/", "b">>,
      <<"f", "t", "p", ":", "/", "/", "o", "/", "a">> }

\* kwargs.get("headers"): not given, a dictionary, or another object
CallerForwardedFor == "9.9.9.9"
HeaderInputs ==
    { [kind |-> "absent", dict |-> <<>>],
      [kind |-> "dict", dict |-> <<>>],
      [kind |-> "dict", dict |-> ("X-Forwarded-For" :> CallerForwardedFor)],
      [kind |-> "dict", dict |-> ("X-Forwarded-For" :> CallerForwardedFor)
                                   @@ ("X-Host" :> "h") @@ ("Accept" :> "a")],
      [kind |-> "other", dict |-> <<>>] }

\* request() left by an exception, super().request not called
Raised(e) == [NotCalled EXCEPT !.kind = e]

\* headers.get("X-Forwarded-For") or inet_ntoa(pack(">I", randint(...))),
\* evaluated on the dictionary X-Forwarded-For was popped from
ForwardedHeader(popped, draw) ==
    IF Get(popped, "X-Forwarded-For") # "" THEN Get(popped, "X-Forwarded-For")
    ELSE InetNtoa(draw)

\* lines 227-233: the headers request() passes on
OutHeaders(h, draw) ==
    LET popped == Pop(h.dict, "X-Forwarded-For")
        hosted == Set(popped, "X-Host", HostHeader)
    IN Set(hosted, "X-Forwarded-Header", ForwardedHeader(hosted, draw))

\* The guard of request() were it not to look at self.endpoints.
HasEndpoint_Unchecked == TRUE

\* if len(self.endpoints) == 0: raise RuntimeError(...)
HasEndpoint == Len(endpoints) # 0

\* request(method, url, headers=h); a behaviour holds one such call, made
\* at any moment of the pool's life
Request ==
    /\ out = NotCalled
    /\ \E url \in Urls, h \in HeaderInputs :
         /\ req' = [url |-> url, headers |-> h, pool |-> endpoints]
         /\ IF ~HasEndpoint
              THEN out' = Raised("RuntimeError")
            ELSE IF ~StartsWith(url, HttpPrefix) /\ ~StartsWith(url, HttpsPrefix)
              THEN out' = Raised("ValueError")
            ELSE IF h.kind = "other"
              THEN out' = Raised("ValueError")
            ELSE \E i \in 1..Len(endpoints), draw \in RandomDraws :
                   out' = [kind |-> "delegated", calls |-> 1,
                           url |-> RewriteUrl(endpoints[i], url),
                           headers |-> OutHeaders(h, draw),
                           endpoint |-> endpoints[i]]
    /\ UNCHANGED <<wait_all_regions, clear_all, plane, poolVars, apis, nextId,
                   rl, provVars, callerVars, tearVars>>

----------------------------------------------------------------------------
(* One provisioning run and one teardown of a pool.                        *)
Next ==
    \/ Aenter
    \/ CallStart
    \/ \E r \in Regions : CreateApi_List(r)
    \/ \E r \in Regions : CreateApi_Create(r)
    \/ \E r \in Regions : CreateApi_Configure(r)
    \/ Start_Consume
    \/ Aenter_Return
    \/ Aenter_Raise
    \/ Close_Begin
    \/ \E r \in Regions : Clear_List(r)
    \/ \E r \in Regions : Clear_Visit(r)
    \/ Close_Finish
    \/ Close_Raise

Spec == Init /\ [][Next]_vars

(* One provisioning run, the pool never closed.                            *)
NextProvision ==
    \/ Aenter
    \/ CallStart
    \/ \E r \in Regions : CreateApi_List(r)
    \/ \E r \in Regions : CreateApi_Create(r)
    \/ \E r \in Regions : CreateApi_Configure(r)
    \/ Start_Consume
    \/ Aenter_Return
    \/ Aenter_Raise

SpecProvision == InitProvision /\ [][NextProvision]_vars

(* Successive provisioning runs on one pool, nothing torn down in between. *)
NextRuns ==
    \/ Aenter
    \/ CallStart
    \/ StartAgain
    \/ \E r \in Regions : CreateApi_List(r)
    \/ \E r \in Regions : CreateApi_Create(r)
    \/ \E r \in Regions : CreateApi_Configure(r)
    \/ Start_Consume
    \/ Aenter_Return
    \/ Aenter_Raise

SpecRuns == InitProvision /\ [][NextRuns]_vars

(* close() alone, over regions holding leftovers.                          *)
NextTeardown ==
    \/ Close_Unstarted
    \/ \E r \in Regions : Clear_List(r)
    \/ \E r \in Regions : Clear_Visit(r)
    \/ Close_Finish
    \/ Close_Raise

SpecTeardown == InitTeardown /\ [][NextTeardown]_vars

\* One provisioning run against a control plane that rate-limits
\* create_rest_api a bounded number of times and fails in no other way.
InitCreateThrottled ==
    /\ wait_all_regions \in BOOLEAN
    /\ clear_all = FALSE
    /\ plane = CreateThrottled
    /\ \E l \in InitialApis : apis = [r \in Regions |-> l]
    /\ Constructed

NextCreateThrottled ==
    \/ Aenter
    \/ CallStart
    \/ \E r \in Regions : CreateApi_List(r)
    \/ \E r \in Regions : CreateApi_Create(r)
    \/ \E r \in Regions : CreateApi_Configure(r)
    \/ Start_Consume
    \/ Aenter_Return

\* The event loop runs every task that is ready, and every control-plane
\* call is answered.
TasksRun ==
    \A r \in Regions :
        /\ WF_vars(CreateApi_List(r))
        /\ WF_vars(CreateApi_Create(r))
        /\ WF_vars(CreateApi_Configure(r))

SpecCreateThrottled ==
    InitCreateThrottled /\ [][NextCreateThrottled]_vars /\ TasksRun

\* One provisioning run, over regions that may hold APIs left by earlier
\* pools, against a control plane that rate-limits get_rest_apis a bounded
\* number of times and fails in no other way.
InitListThrottled ==
    /\ wait_all_regions \in BOOLEAN
    /\ clear_all = FALSE
    /\ plane = ListThrottled
    /\ apis \in LeftoverRegions
    /\ Constructed

SpecListThrottled == InitListThrottled /\ [][NextCreateThrottled]_vars

\* A teardown over regions holding named APIs left by earlier pools,
\* against a control plane that rate-limits delete_rest_api a bounded
\* number of times and fails in no other way.
NamedRegions ==
    {f \in LeftoverRegions : \A r \in Regions : \A a \in Range(f[r]) : a.hasName}

InitDeleteThrottled ==
    /\ wait_all_regions = TRUE
    /\ clear_all \in BOOLEAN
    /\ plane = DeleteThrottled
    /\ apis \in NamedRegions
    /\ Constructed

NextDeleteThrottled ==
    \/ Close_Unstarted
    \/ \E r \in Regions : Clear_List(r)
    \/ \E r \in Regions : Clear_Visit(r)
    \/ Close_Finish

\* asyncio.gather runs every _clear_region_apis task, and every
\* control-plane call is answered.
ClearTasksRun ==
    \A r \in Regions : WF_vars(Clear_List(r)) /\ WF_vars(Clear_Visit(r))

SpecDeleteThrottled ==
    InitDeleteThrottled /\ [][NextDeleteThrottled]_vars /\ ClearTasksRun

\* Provisioning runs and one close() of a pool over regions that hold at
\* most one API of another pool, no control-plane call failing.
InitNoFailure ==
    /\ wait_all_regions \in BOOLEAN
    /\ clear_all \in BOOLEAN
    /\ plane = NoFailure
    /\ \E l \in InitialApis : apis = [r \in Regions |-> l]
    /\ Constructed

NextNoFailure ==
    \/ Aenter
    \/ CallStart
    \/ StartAgain
    \/ \E r \in Regions : CreateApi_List(r)
    \/ \E r \in Regions : CreateApi_Create(r)
    \/ \E r \in Regions : CreateApi_Configure(r)
    \/ Start_Consume
    \/ Aenter_Return
    \/ Close_Begin
    \/ \E r \in Regions : Clear_List(r)
    \/ \E r \in Regions : Clear_Visit(r)
    \/ Close_Finish
    \/ Close_Raise

SpecNoFailure == InitNoFailure /\ [][NextNoFailure]_vars

\* A provisioning run whose control-plane calls succeed or fail with an
\* error, and a caller that calls request() at any time.
InitRequest ==
    /\ wait_all_regions \in BOOLEAN
    /\ clear_all = FALSE
    /\ plane = ErrorsOnly
    /\ apis = [r \in Regions |-> <<>>]
    /\ Constructed

NextRequest ==
    \/ Aenter
    \/ CallStart
    \/ \E r \in Regions : CreateApi_List(r)
    \/ \E r \in Regions : CreateApi_Create(r)
    \/ \E r \in Regions : CreateApi_Configure(r)
    \/ Start_Consume
    \/ Aenter_Return
    \/ Aenter_Raise
    \/ Request

SpecRequest == InitRequest /\ [][NextRequest]_vars

\* One provisioning run whose control-plane calls succeed or fail with an
\* error, every task and every waiting caller being scheduled.
CallerRuns == WF_vars(Start_Consume) /\ WF_vars(Aenter_Return)

SpecAcquire ==
    InitRequest /\ [][NextProvision]_vars /\ TasksRun /\ CallerRuns

----------------------------------------------------------------------------
(* The claims.                                                             *)

\* the regions whose task of the current run returned an endpoint
Succeeded == {r \in Regions : cPc[r] = "done" /\ cRes[r] # None}

\* C1: an unreachable control plane or an error other than a rate limit, at
\* any step of a region's _create_api task, makes the task return None and
\* never ends the task by the exception.  (Stated as written; the code
\* raises out of the task, and then out of start(), when a call after the
\* try block fails.)
C1_NeverRaises ==
    \A r \in Regions : cPc[r] \notin {"ClientError", "EndpointConnectionError"}

\* C2: through one provisioning run, active is false before the run, is
\* true from the step that appends the first endpoint on, and is never true
\* while the endpoint list is empty.
C2_Activation ==
    /\ run = 0 => ~active
    /\ active <=> endpoints # <<>>

C2_Witness ==
    /\ active
    /\ Len(endpoints) = 1
    /\ startPc = "running"

\* C3: when close() ends, by return or by exception, the endpoint list is
\* empty and active is false.  (Stated as written; close() never empties
\* self.endpoints and skips self.active = False when it ends by exception.)
C3_ClosedEmpty ==
    [][(closePc = "running" /\ closePc' \in {"done", "raised"})
          => (endpoints' = <<>> /\ ~active')]_vars

\* C4: with wait_all_regions false, __aenter__ returns only once active is
\* true, and the endpoint list is never shorter afterwards than the caller
\* saw it on return, the tasks still running appending to it.
C4_WaitFirst ==
    (how = "aenter" /\ ~wait_all_regions /\ aenterPc = "returned")
       => /\ active
          /\ observed >= 1
          /\ Len(endpoints) >= observed

C4_Witness ==
    /\ how = "aenter" /\ ~wait_all_regions /\ aenterPc = "returned"
    /\ startPc = "done"
    /\ Len(endpoints) > observed

\* C5: with wait_all_regions true, __aenter__ has returned only if every
\* region's task has ended, and the endpoint list then holds exactly the
\* endpoints of the regions whose task returned one.
C5_WaitAll ==
    (how = "aenter" /\ wait_all_regions /\ aenterPc = "returned")
       => /\ \A r \in Regions : cPc[r] = "done"
          /\ Range(endpoints) = {cRes[r] : r \in Succeeded}
          /\ Len(endpoints) = Cardinality(Succeeded)

C5_Witness ==
    /\ how = "aenter" /\ wait_all_regions /\ aenterPc = "returned"
    /\ \E r \in Regions : cRes[r] = None
    /\ \E r \in Regions : cRes[r] # None

\* C6: two successive runs with force = false return the same endpoint for
\* every region.  (Stated as written; a failed listing in the second run is
\* read as an empty region and a second API is created.)
C6_SameEndpoint ==
    \A r \in Regions :
       (/\ run >= 2 /\ ~force /\ ~prevForce
        /\ cPc[r] = "done" /\ cRes[r] # None /\ prevRes[r] # None)
          => cRes[r] = prevRes[r]

\* C7: teardown issues a delete for a listed API exactly when clear_all is
\* set or the API's name is the pool's name; with clear_all false every
\* delete is for an API named after the pool and no other API leaves its
\* region; with clear_all true every API the loop has visited had a delete
\* issued.
C7_DeleteFilter ==
    \A r \in Regions :
       /\ \A a \in delIssued[r] : clear_all \/ (a.hasName /\ a.name = PoolName)
       /\ tPc[r] \in {"loop", "done"} =>
             \A i \in 1..tIdx[r] :
                (clear_all \/ tList[r][i].name = PoolName)
                   => tList[r][i] \in delIssued[r]
       /\ \A a \in Range(tList[r]) : a \in Range(apis[r]) \/ a \in delIssued[r]

C7_Witness ==
    /\ ~clear_all
    /\ \E r \in Regions :
          /\ tPc[r] = "done"
          /\ \E a \in delIssued[r] : a \notin Range(apis[r])
          /\ \E a \in Range(tList[r]) : a.name # PoolName /\ a \in Range(apis[r])

\* C8: a failure of one delete_rest_api call other than a rate limit never
\* ends the region's teardown task.  (Stated as written; the except clause
\* does not catch EndpointConnectionError.)
C8_DeleteFailureAbsorbed ==
    \A r \in Regions : tPc[r] # "EndpointConnectionError"

\* C9: once close() has set active false, active stays false and nothing
\* is appended to the endpoint list, no start() being called afresh.
\* (Stated as written; start() still running in the background appends and
\* flips active after close() has ended.)
C9_StaysInactive ==
    closePc = "done" => (~active /\ Len(endpoints) = closedLen)

\* C10: when every region's task returns None, start() ends without an
\* exception and the pool is left inactive with no endpoint.
C10_AllAbsent ==
    (run >= 1 /\ \A r \in Regions : cPc[r] = "done" /\ cRes[r] = None)
       => /\ startPc # "raised"
          /\ ~active
          /\ endpoints = <<>>

C10_Witness ==
    /\ startPc = "done"
    /\ \A r \in Regions : cPc[r] = "done" /\ cRes[r] = None
    /\ ~active

\* C11: when the control plane rate-limits create_rest_api N times and then
\* accepts it, the region's task sleeps exactly N times, calls
\* create_rest_api exactly N + 1 times, creates exactly one API, and ends
\* by returning the endpoint of that API.
C11_RetryCreate ==
    /\ [](\A r \in Regions :
            LET st == cStat[r]
            IN /\ st.delays = st.throttled
               /\ st.created \in {0, 1}
               /\ st.attempts = st.throttled + st.created
               /\ (cPc[r] = "done" /\ st.attempts > 0)
                     => /\ st.created = 1
                        /\ cRes[r] = Endpoint(cApi[r], r)
                        /\ \E a \in Range(apis[r]) :
                             a.id = cApi[r] /\ a.name = PoolName)
    /\ \A r \in Regions :
         (cPc[r] = "create") ~> (cPc[r] = "done" /\ cRes[r] = Endpoint(cApi[r], r))

C11_Witness ==
    \E r \in Regions :
        /\ cStat[r].throttled = MaxRateLimits
        /\ cStat[r].attempts = MaxRateLimits + 1
        /\ cPc[r] = "done"
        /\ cRes[r] = Endpoint(cApi[r], r)

\* C12: a request() made while the endpoint list is empty ends with
\* RuntimeError and makes no call to the HTTP client, whatever the URL and
\* the headers, before any run as well as after a run in which no region
\* gave an endpoint.
C12_NoEndpoint ==
    (out.kind # "none" /\ req.pool = <<>>)
        => (out.kind = "RuntimeError" /\ out.calls = 0)

C12_Witness ==
    /\ out.kind = "RuntimeError"
    /\ req.url \in Urls
    /\ startPc = "done"
    /\ \A r \in Regions : cPc[r] = "done" /\ cRes[r] = None

\* C13: a request() that reaches the HTTP client does so with the URL
\* https://{e}/proxy-stage/{path}, e an address of the endpoint list at the
\* time of the call and {path} what follows the first "/" after the host
\* of the caller's URL, empty when there is no such "/"; a URL that is
\* neither http nor https does not reach the HTTP client.
C13_Rewrite ==
    out.kind = "delegated" =>
        LET u == req.url
            scheme == IF StartsWith(u, HttpsPrefix) THEN HttpsPrefix
                      ELSE HttpPrefix
            body == SubSeq(u, Len(scheme) + 1, Len(u))
        IN /\ StartsWith(u, scheme)
           /\ out.endpoint \in Range(req.pool)
           /\ \E k \in 0..Len(body) :
                /\ \A i \in 1..k : body[i] # "/"
                /\ k = Len(body) \/ body[k + 1] = "/"
                /\ out.url = HttpsPrefix \o EndpointText(out.endpoint)
                               \o ProxyStage \o SubSeq(body, k + 2, Len(body))

C13_Witness ==
    /\ out.kind = "delegated"
    /\ StartsWith(req.url, HttpPrefix)
    /\ IndexOf(SubSeq(req.url, Len(HttpPrefix) + 1, Len(req.url)), SchemeSep) # 0
    /\ Len(req.pool) = NumRegions
    /\ out.endpoint = req.pool[NumRegions]

\* C14: the headers request() passes on hold no X-Forwarded-For, hold
\* X-Host with the pool's host header, and hold X-Forwarded-Header with
\* the caller's X-Forwarded-For when the caller gave one and a synthesized
\* address only when the caller gave none.
C14_ForwardedHeader ==
    out.kind = "delegated" =>
        LET given == req.headers.dict
        IN /\ "X-Forwarded-For" \notin DOMAIN out.headers
           /\ out.headers["X-Host"] = HostHeader
           /\ IF "X-Forwarded-For" \in DOMAIN given
                THEN out.headers["X-Forwarded-Header"] = given["X-Forwarded-For"]
                ELSE out.headers["X-Forwarded-Header"]
                       \in {InetNtoa(d) : d \in RandomDraws}

\* C15: a rate-limited listing is not taken for an empty one: no step of a
\* force=false run creates an API in a region that already holds an API
\* named after the pool.
C15_NoSecondApi ==
    [][\A r \in Regions :
          (~force /\ cStat'[r].created > cStat[r].created)
              => ~\E a \in Range(apis[r]) : a.hasName /\ a.name = PoolName]_vars

\* C16: when the control plane rate-limits delete_rest_api a finite number
\* of times and then accepts it, a region's teardown task sleeps once per
\* rate-limit answer, ends without an exception, leaves none of the APIs
\* it is meant to delete, and no API's deletion succeeds twice.
C16_RetryDelete ==
    /\ [](\A r \in Regions :
            LET st == tStat[r]
            IN /\ st.delays = st.throttled
               /\ \A i, j \in 1..Len(st.deleted) :
                    st.deleted[i] = st.deleted[j] => i = j
               /\ tPc[r] \notin TeardownErrors
               /\ tPc[r] = "done" =>
                    \A a \in Range(apis[r]) : ~(clear_all \/ a.name = PoolName))
    /\ \A r \in Regions : (tPc[r] = "list") ~> (tPc[r] = "done")

C16_Witness ==
    \E r \in Regions :
        /\ tPc[r] = "done"
        /\ tStat[r].throttled = MaxRateLimits
        /\ Len(tStat[r].deleted) = MaxLeftover

\* C17: whatever start() and close() calls were made on the pool, no
\* address is in the endpoint list twice.
C17_NoAddressTwice ==
    \A i, j \in 1..Len(endpoints) : endpoints[i] = endpoints[j] => i = j

\* the acquisition that polls self.active
WaitFirst == how = "aenter" /\ ~wait_all_regions

\* C18: with wait_all_regions false, __aenter__ returns only in a state
\* where active is true and never ends by an exception; once active is
\* true it returns; and when start() has ended, normally or by an
\* exception, with active still false, __aenter__ is still waiting.
C18_ReturnsIffActive ==
    /\ [][(WaitFirst /\ aenterPc' # aenterPc)
            => (active /\ aenterPc' = "returned")]_vars
    /\ []((WaitFirst /\ startPc # "running" /\ ~active)
            => aenterPc = "waiting")
    /\ (WaitFirst /\ active) ~> (aenterPc = "returned")

C18_Witness ==
    /\ how = "aenter" /\ ~wait_all_regions
    /\ startPc = "raised"
    /\ ~active
    /\ aenterPc = "waiting"
    /\ \A r \in Regions : Finished(cPc[r])

\* C19: an API that a force=false run reused as the region's endpoint is
\* one that a teardown with clear_all false, having listed it, calls
\* delete_rest_api for.
C19_ReusedIsDeleted ==
    \A r \in Regions :
        (~clear_all /\ ~force /\ cPc[r] = "done" /\ cStat[r].created = 0
           /\ tPc[r] = "done")
          => \A a \in Range(tList[r]) :
                Endpoint(a.id, r) = cRes[r] => a \in delIssued[r]

\* C20: no control-plane call failing, once the tasks of the one
\* provisioning run and of close() have all ended and close() has
\* returned, no region holds an API named after the pool.
C20_NothingLeft ==
    (/\ run = 1
     /\ \A r \in Regions : cPc[r] = "done"
     /\ closePc = "done"
     /\ \A r \in Regions : tPc[r] = "done")
       => \A r \in Regions : \A a \in Range(apis[r]) :
             ~(a.hasName /\ a.name = PoolName)

====
